---- MODULE Spec2Model ----
(***************************************************************************)
(* Car-rental backend: booking lifecycle against car stock/availability,   *)
(* booking creation through the controller (conflict check and pricing),   *)
(* and review aggregation into the car's rating.                           *)
(*                                                                         *)
(* Every request handler is one action: the documents it reads and writes  *)
(* are the variables, its inputs are drawn from small sets, and the        *)
(* variable last holds the request just served and its response.           *)
(***************************************************************************)
EXTENDS Integers, FiniteSets, Sequences, TLC

\* ------------------------------------------------------------------ bounds
MaxBookings == 2        \* booking documents ever created in one run
MaxStock == 2           \* largest initial stock of a car
MaxDays == 3            \* conflict checks: dates range over 0 .. MaxDays whole days
MaxHalfDays == 4        \* pricing: dates range over 0 .. MaxHalfDays half days
MaxPriced == 2          \* pricing: bookings created in one run
MaxReviews == 3         \* review documents ever created in one run
MaxSelected == 2        \* longest additionalServices array of a request
MaxInflight == 2        \* POST /bookings requests served at the same time

\* --------------------------------------------------------------- constants
MsPerDay == 1000 * 60 * 60 * 24
HalfDay == MsPerDay \div 2

Cars == {"c1", "c2"}
NoCar == "c0"                       \* a well-formed id of no stored car
Users == {"alice", "bob"}           \* role user
Admins == {"root"}                  \* role admin
Callers == Users \cup Admins
Role(u) == IF u \in Admins THEN "admin" ELSE "user"

BookingIds == 1 .. MaxBookings
BadId == 0                          \* an id that is no ObjectId
Times == {h * HalfDay : h \in 0 .. MaxHalfDays}
Days == {d * MsPerDay : d \in 0 .. MaxDays}

\* bookingSchema.status / paymentStatus enums
BookingStatuses == {"pending", "active", "completed", "cancelled"}
PaymentStatuses == {"pending", "paid", "refunded"}

\* ReviewSchema.rating: min 1, max 5
RatingMin == 1
RatingMax == 5
ReviewIds == 1 .. MaxReviews
NoUser == "anonymous"               \* a request without req.user
Keep == "keep"                      \* a field absent from a request body

NoAmount == -1                      \* totalAmount absent from the request body

ServiceIds == {"gps", "seat"}       \* the catalog's entries
NoService == "none"                 \* a well-formed id of no catalog entry
Selections == UNION {[1 .. n -> ServiceIds \cup {NoService}] : n \in 0 .. MaxSelected}

VARIABLES
    stock,            \* Car.stock, per car
    availability,     \* Car.availability, per car
    pricePerDay,      \* Car.pricePerDay, per car
    services,         \* the AdditionalService catalog, per service id
    bookings,         \* the stored Booking documents
    nextId,           \* the next fresh booking id
    ledger,           \* history: per booking id, the stock decrement and restores made for it
    stock0,           \* history: the stock each car started with
    reviews,          \* the stored Review documents
    nextReviewId,     \* the next fresh review id
    rating,           \* Car.rating, per car, in tenths (43 is 4.3)
    numberOfReviews,  \* Car.numberOfReviews, per car
    inflight,         \* per request slot, how far a POST /bookings being served has got
    hooks,            \* per request slot, how far a review write and its post hook have got
    last              \* the handler that served the last request, and its response

cars == <<stock, availability, pricePerDay>>
store == <<stock, availability, pricePerDay, services, bookings, nextId, ledger, stock0>>
reviewStore == <<reviews, nextReviewId, rating, numberOfReviews>>
vars == <<stock, availability, pricePerDay, services, bookings, nextId, ledger, stock0,
          reviews, nextReviewId, rating, numberOfReviews, inflight, hooks, last>>

\* ----------------------------------------------------------------- helpers
Found(id) == {b \in bookings : b.id = id}
Exists(id) == Found(id) # {}
TheBooking(id) == CHOOSE b \in bookings : b.id = id

NoLedger == [car |-> NoCar, dec |-> 0, inc |-> 0]

\* The response of handler op: its HTTP status, its message and, for a read,
\* the ids of the documents in its body.
Respond(op, code, msg) ==
    [op |-> op, code |-> code, msg |-> msg, data |-> {}]

\* a schema without the date hook
BookingValidAnyDates(s, e, amount) == amount # NoAmount

\* bookingSchema.pre('validate') and the required totalAmount
BookingValid(s, e, amount) ==
    /\ ~(e <= s)
    /\ amount # NoAmount

\* a restore that adds the unit and leaves availability as read
RestoredAvailabilityAsRead(st, av) == av

\* car.stock += 1; if (!car.availability && car.stock > 0) car.availability = true
RestoredStock(st) == st + 1
RestoredAvailability(st, av) == IF ~av /\ RestoredStock(st) > 0 THEN TRUE ELSE av

\* Car.findById(vehicleId), the restore above, car.save()
RestoreCar(c) ==
    /\ stock' = [stock EXCEPT ![c] = RestoredStock(stock[c])]
    /\ availability' = [availability EXCEPT ![c] = RestoredAvailability(stock[c], availability[c])]

\* a stock test that lets every request through
OutOfStockNever(st) == FALSE

\* if (car.stock <= 0)
OutOfStock(st) == st <= 0

\* carSchema.stock: {min: 0}, checked by car.save()
CarValid(st) == st >= 0

\* car.stock -= 1; if (car.stock === 0) car.availability = false
DecrementedStock(st) == st - 1
\* the zero test made on the stock as read, before the decrement
AvailabilityTestedBeforeDecrement(st, av) == IF st = 0 THEN FALSE ELSE av
DecrementedAvailability(st, av) == IF DecrementedStock(st) = 0 THEN FALSE ELSE av

NewBooking(id, u, c, s, e, amount, lines) ==
    [id |-> id, userId |-> u, vehicleId |-> c, startDate |-> s, endDate |-> e,
     totalAmount |-> amount, additionalServices |-> lines,
     status |-> "pending", paymentStatus |-> "pending"]

Credit(id) == [ledger EXCEPT ![id].inc = @ + 1]

\* A response that leaves every document as it was.
Reply(req, code, msg) ==
    /\ last' = Respond(req, code, msg)
    /\ UNCHANGED store

\* an ownership test that refuses nobody
NobodyRefused(b, u) == FALSE

\* booking.userId.toString() !== req.user.id && req.user.role !== 'admin'
NotOwnerNorAdmin(b, u) == b.userId # u /\ Role(u) # "admin"

SetStatus(b, status) == (bookings \ {b}) \cup {[b EXCEPT !.status = status]}

\* ------------------------------------------------- routes/bookings: POST /
\* The catch block of router.post('/') on the car as stored: Car.findById, the
\* restore, car.save(), then the 500 response.
Compensate(c) ==
    /\ RestoreCar(c)
    /\ last' = Respond("postBooking", 500, "failed to create")
    /\ UNCHANGED <<pricePerDay, services, bookings, nextId, ledger, stock0>>

\* router.post('/', auth.protect, ...): the stock-managing creation path.
PostBooking(u, c, s, e, amount, body) ==
    LET req == "postBooking" IN
    IF body = "noRequired" THEN Reply(req, 400, "required")
    ELSE IF body = "noLocation" THEN Reply(req, 400, "location")
    ELSE IF body = "lookupFails"
         THEN \* Car.findById rejects; inside the catch block it rejects again, or
              \* finds the car, which the block then restores and saves
              \/ Reply(req, 500, "failed to create")
              \/ c \in Cars /\ Compensate(c)
    ELSE IF c \notin Cars THEN Reply(req, 404, "car not found")
    ELSE IF ~availability[c] THEN Reply(req, 400, "not available")
    ELSE IF OutOfStock(stock[c]) THEN Reply(req, 400, "out of stock")
    ELSE IF body = "carSaveFails"
         THEN \* car.save() rejects: the decrement is not stored; the catch block
              \* re-reads the car, adds 1 and saves, unless that save rejects too
              \/ Reply(req, 500, "failed to create")
              \/ Compensate(c)
    ELSE LET st1 == DecrementedStock(stock[c])
             av1 == DecrementedAvailability(stock[c], availability[c])
         IN  IF BookingValid(s, e, amount)
             THEN /\ nextId <= MaxBookings
                  /\ stock' = [stock EXCEPT ![c] = st1]
                  /\ availability' = [availability EXCEPT ![c] = av1]
                  /\ bookings' = bookings \cup {NewBooking(nextId, u, c, s, e, amount, {})}
                  /\ nextId' = nextId + 1
                  /\ ledger' = [ledger EXCEPT ![nextId] = [car |-> c, dec |-> 1, inc |-> 0]]
                  /\ last' = Respond(req, 201, "created")
                  /\ UNCHANGED <<pricePerDay, services, stock0>>
             ELSE \* newBooking.save() rejects; the catch block re-reads the car and restores
                  /\ stock' = [stock EXCEPT ![c] = RestoredStock(st1)]
                  /\ availability' = [availability EXCEPT ![c] = RestoredAvailability(st1, av1)]
                  /\ last' = Respond(req, 500, "failed to create")
                  /\ UNCHANGED <<pricePerDay, services, bookings, nextId, ledger, stock0>>

\* router.post('/') as its awaited calls interleave: slot r holds the request
\* (its user, car and dates), the Car document the handler has in memory, whether
\* it assigned availability, and the call it waits for.
Requests == 1 .. MaxInflight
Idle == [pc |-> "idle", u |-> NoUser, car |-> NoCar, s |-> 0, e |-> 0,
         stock |-> 0, availability |-> FALSE, assigned |-> FALSE]

\* car.save(): the paths assigned since the document was read are written
SaveCar(r) ==
    LET c == inflight[r].car IN
    /\ stock' = [stock EXCEPT ![c] = inflight[r].stock]
    /\ availability' = [availability EXCEPT
                            ![c] = IF inflight[r].assigned THEN inflight[r].availability ELSE @]

\* await Car.findById(vehicleId), the checks, and the decrement of the document
\* in memory, up to await car.save()
PostFindCar(r, u, c, s, e) ==
    LET req == "postBooking" IN
    /\ inflight[r].pc = "idle"
    /\ IF c \notin Cars THEN Reply(req, 404, "car not found") /\ UNCHANGED inflight
       ELSE IF ~availability[c] THEN Reply(req, 400, "not available") /\ UNCHANGED inflight
       ELSE IF OutOfStock(stock[c]) THEN Reply(req, 400, "out of stock") /\ UNCHANGED inflight
       ELSE /\ inflight' = [inflight EXCEPT ![r] =
                    [pc |-> "saveCar", u |-> u, car |-> c, s |-> s, e |-> e,
                     stock |-> DecrementedStock(stock[c]),
                     availability |-> DecrementedAvailability(stock[c], availability[c]),
                     assigned |-> DecrementedStock(stock[c]) = 0]]
            /\ UNCHANGED <<store, last>>

\* await car.save(): it rejects a stock below the schema's minimum
PostSaveCar(r) ==
    /\ inflight[r].pc = "saveCar"
    /\ IF CarValid(inflight[r].stock)
       THEN /\ SaveCar(r)
            /\ inflight' = [inflight EXCEPT ![r].pc = "saveBooking"]
       ELSE /\ inflight' = [inflight EXCEPT ![r].pc = "catch"]
            /\ UNCHANGED <<stock, availability>>
    /\ UNCHANGED <<pricePerDay, services, bookings, nextId, ledger, stock0, last>>

\* await newBooking.save(), then the 201 response
PostSaveBooking(r) ==
    LET q == inflight[r] IN
    /\ q.pc = "saveBooking"
    /\ IF BookingValid(q.s, q.e, 100)
       THEN /\ nextId <= MaxBookings
            /\ bookings' = bookings \cup {NewBooking(nextId, q.u, q.car, q.s, q.e, 100, {})}
            /\ nextId' = nextId + 1
            /\ ledger' = [ledger EXCEPT ![nextId] = [car |-> q.car, dec |-> 1, inc |-> 0]]
            /\ last' = Respond("postBooking", 201, "created")
            /\ inflight' = [inflight EXCEPT ![r] = Idle]
       ELSE /\ inflight' = [inflight EXCEPT ![r].pc = "catch"]
            /\ UNCHANGED <<bookings, nextId, ledger, last>>
    /\ UNCHANGED <<stock, availability, pricePerDay, services, stock0>>

\* the catch block: await Car.findById(req.body.vehicleId) and the restore of the
\* document in memory, up to await car.save()
PostCatchFindCar(r) ==
    LET c == inflight[r].car IN
    /\ inflight[r].pc = "catch"
    /\ inflight' = [inflight EXCEPT ![r].pc = "catchSave",
                                    ![r].stock = RestoredStock(stock[c]),
                                    ![r].availability = RestoredAvailability(stock[c], availability[c]),
                                    ![r].assigned = (RestoredAvailability(stock[c], availability[c])
                                                       # availability[c])]
    /\ UNCHANGED <<store, last>>

\* the catch block: await car.save(), then the 500 response
PostCatchSaveCar(r) ==
    /\ inflight[r].pc = "catchSave"
    /\ SaveCar(r)
    /\ inflight' = [inflight EXCEPT ![r] = Idle]
    /\ last' = Respond("postBooking", 500, "failed to create")
    /\ UNCHANGED <<pricePerDay, services, bookings, nextId, ledger, stock0>>

\* router.put('/:id/approve', auth.protect, ...)
ApproveBooking(u, id) ==
    LET req == "approve" IN
    IF id = BadId THEN Reply(req, 500, "cast error")
    ELSE IF ~Exists(id) THEN Reply(req, 404, "booking not found")
    ELSE /\ bookings' = SetStatus(TheBooking(id), "active")
         /\ last' = Respond(req, 200, "approved")
         /\ UNCHANGED <<stock, availability, pricePerDay, services, nextId, ledger, stock0>>

\* a reject that gives the booking's unit of stock back to its car
RejectRestoringStock(u, id) ==
    IF id = BadId THEN Reply("reject", 500, "cast error")
    ELSE IF ~Exists(id) THEN Reply("reject", 404, "booking not found")
    ELSE /\ bookings' = SetStatus(TheBooking(id), "cancelled")
         /\ RestoreCar(TheBooking(id).vehicleId)
         /\ ledger' = Credit(id)
         /\ last' = Respond("reject", 200, "rejected")
         /\ UNCHANGED <<pricePerDay, services, nextId, stock0>>

\* router.put('/:id/reject', auth.protect, ...)
RejectBooking(u, id) ==
    LET req == "reject" IN
    IF id = BadId THEN Reply(req, 500, "cast error")
    ELSE IF ~Exists(id) THEN Reply(req, 404, "booking not found")
    ELSE /\ bookings' = SetStatus(TheBooking(id), "cancelled")
         /\ last' = Respond(req, 200, "rejected")
         /\ UNCHANGED <<stock, availability, pricePerDay, services, nextId, ledger, stock0>>

\* a cancel that restores the stock on every call, whatever the booking's status
CancelRestoringUnguarded(u, id) ==
    IF id = BadId THEN Reply("cancel", 400, "invalid id")
    ELSE IF ~Exists(id) THEN Reply("cancel", 404, "booking not found")
    ELSE IF NotOwnerNorAdmin(TheBooking(id), u) THEN Reply("cancel", 403, "not authorized")
    ELSE /\ bookings' = SetStatus(TheBooking(id), "cancelled")
         /\ RestoreCar(TheBooking(id).vehicleId)
         /\ ledger' = Credit(id)
         /\ last' = Respond("cancel", 200, "cancelled")
         /\ UNCHANGED <<pricePerDay, services, nextId, stock0>>

\* router.put('/:id/cancel', auth.protect, ...)
CancelBooking(u, id) ==
    LET req == "cancel" IN
    IF id = BadId THEN Reply(req, 400, "invalid id")
    ELSE IF ~Exists(id) THEN Reply(req, 404, "booking not found")
    ELSE IF NotOwnerNorAdmin(TheBooking(id), u) THEN Reply(req, 403, "not authorized")
    ELSE /\ bookings' = SetStatus(TheBooking(id), "cancelled")
         /\ last' = Respond(req, 200, "cancelled")
         /\ UNCHANGED <<stock, availability, pricePerDay, services, nextId, ledger, stock0>>

\* router.delete('/:id', auth.protect, ...), first registration
DeleteBookingFirst(u, id) ==
    LET req == "delete" IN
    IF id = BadId THEN Reply(req, 400, "invalid id")
    ELSE IF ~Exists(id) THEN Reply(req, 404, "booking not found")
    ELSE IF NotOwnerNorAdmin(TheBooking(id), u) THEN Reply(req, 403, "not authorized")
    ELSE /\ bookings' = bookings \ {TheBooking(id)}
         /\ last' = Respond(req, 200, "deleted")
         /\ UNCHANGED <<stock, availability, pricePerDay, services, nextId, ledger, stock0>>

\* router.delete('/:id', auth.protect, ...), second registration
DeleteBookingSecond(u, id) ==
    LET req == "delete" IN
    IF id = BadId THEN Reply(req, 400, "invalid id")
    ELSE IF ~Exists(id) THEN Reply(req, 404, "booking not found")
    ELSE LET c == TheBooking(id).vehicleId IN
         /\ bookings' = bookings \ {TheBooking(id)}
         /\ IF c \in Cars
            THEN RestoreCar(c) /\ ledger' = Credit(id)
            ELSE UNCHANGED <<stock, availability, ledger>>
         /\ last' = Respond(req, 200, "deleted")
         /\ UNCHANGED <<pricePerDay, services, nextId, stock0>>

\* Express serves a request with the first handler registered for its method and
\* path that ends the response: the first registration never calls next().
DeleteBookingRoute(u, id) == DeleteBookingFirst(u, id)

\* router.delete('/emergency/:id', ...): no auth middleware, no checks
EmergencyDelete(u, id) ==
    LET req == "emergencyDelete" IN
    IF id = BadId THEN Reply(req, 500, "cast error")
    ELSE IF Exists(id)
         THEN LET c == TheBooking(id).vehicleId IN
              /\ bookings' = bookings \ {TheBooking(id)}
              /\ IF c \in Cars
                 THEN RestoreCar(c) /\ ledger' = Credit(id)
                 ELSE UNCHANGED <<stock, availability, ledger>>
              /\ last' = Respond(req, 200, "emergency delete completed")
              /\ UNCHANGED <<pricePerDay, services, nextId, stock0>>
         ELSE Reply(req, 200, "emergency delete completed")

\* router.delete('/emergency/:id', ...) as its awaited calls interleave: slot r
\* holds the id asked for, the vehicleId of the booking findById returned (NoCar
\* when it returned none), whether deleteOne removed a record, and the Car
\* document the handler has in memory.
\* await Booking.findById(bookingId)
EmergencyFind(r, id) ==
    /\ inflight[r].pc = "idle"
    /\ IF id = BadId THEN Reply("emergencyDelete", 500, "cast error") /\ UNCHANGED inflight
       ELSE /\ inflight' = [inflight EXCEPT ![r] =
                    [pc |-> "emergencyDeleteOne", id |-> id, removed |-> FALSE,
                     car |-> IF Exists(id) THEN TheBooking(id).vehicleId ELSE NoCar,
                     stock |-> 0, availability |-> FALSE, assigned |-> FALSE]]
            /\ UNCHANGED <<store, last>>

\* await Booking.deleteOne({_id: bookingId}); without a booking found earlier the
\* response follows
EmergencyDeleteOne(r) ==
    LET q == inflight[r] IN
    /\ q.pc = "emergencyDeleteOne"
    /\ bookings' = bookings \ Found(q.id)
    /\ IF q.car \in Cars
       THEN /\ inflight' = [inflight EXCEPT ![r].pc = "emergencyFindCar", ![r].removed = Exists(q.id)]
            /\ UNCHANGED last
       ELSE /\ inflight' = [inflight EXCEPT ![r] = Idle]
            /\ last' = Respond("emergencyDelete", 200, "emergency delete completed")
    /\ UNCHANGED <<stock, availability, pricePerDay, services, nextId, ledger, stock0>>

\* await Car.findById(booking.vehicleId) and the restore of the document in memory
EmergencyFindCar(r) ==
    LET c == inflight[r].car IN
    /\ inflight[r].pc = "emergencyFindCar"
    /\ inflight' = [inflight EXCEPT ![r].pc = "emergencySaveCar",
                                    ![r].stock = RestoredStock(stock[c]),
                                    ![r].availability = RestoredAvailability(stock[c], availability[c]),
                                    ![r].assigned = (RestoredAvailability(stock[c], availability[c])
                                                       # availability[c])]
    /\ UNCHANGED <<store, last>>

\* await car.save(), then the 200 response
EmergencySaveCar(r) ==
    /\ inflight[r].pc = "emergencySaveCar"
    /\ SaveCar(r)
    /\ ledger' = Credit(inflight[r].id)
    /\ inflight' = [inflight EXCEPT ![r] = Idle]
    /\ last' = Respond("emergencyDelete", 200, "emergency delete completed")
    /\ UNCHANGED <<pricePerDay, services, bookings, nextId, stock0>>

\* ---------------------------------------------------- routes/payments
\* router.post('/confirm-payment', auth.protect, ...); intent is the status of
\* the payment intent retrieved from the gateway. booking.save() validates the
\* document against the schema's enums.
ConfirmPayment(u, id, intent) ==
    LET req == "confirmPayment" IN
    IF id = BadId THEN Reply(req, 500, "failed to confirm")
    ELSE IF ~Exists(id) THEN Reply(req, 404, "booking not found")
    ELSE IF intent # "succeeded" THEN Reply(req, 400, "payment has not succeeded")
    ELSE LET doc == [TheBooking(id) EXCEPT !.paymentStatus = "completed", !.status = "confirmed"] IN
         IF doc.status \notin BookingStatuses \/ doc.paymentStatus \notin PaymentStatuses
         THEN Reply(req, 500, "failed to confirm")
         ELSE /\ bookings' = (bookings \ {TheBooking(id)}) \cup {doc}
              /\ last' = Respond(req, 200, "payment confirmed")
              /\ UNCHANGED <<stock, availability, pricePerDay, services, nextId, ledger, stock0>>

\* router.post('/webhook', ...); event is the type of the verified event, or
\* "badSignature" when constructEvent throws; id is metadata.bookingId. An error
\* of findById or of booking.save() is caught and logged.
PaymentWebhook(event, id) ==
    LET req == "webhook" IN
    IF event = "badSignature" THEN Reply(req, 400, "signature")
    ELSE IF event # "payment_intent.succeeded" \/ id = BadId \/ ~Exists(id)
         THEN Reply(req, 200, "received")
    ELSE LET doc == [TheBooking(id) EXCEPT !.paymentStatus = "completed", !.status = "confirmed"] IN
         IF doc.status \notin BookingStatuses \/ doc.paymentStatus \notin PaymentStatuses
         THEN Reply(req, 200, "received")
         ELSE /\ bookings' = (bookings \ {TheBooking(id)}) \cup {doc}
              /\ last' = Respond(req, 200, "received")
              /\ UNCHANGED <<stock, availability, pricePerDay, services, nextId, ledger, stock0>>

\* ------------------------------------------- controllers/bookingController
\* the $or without its third clause, the stored range containing the requested one
DateClauseWithoutContainment(b, s, e) ==
    \/ (b.startDate <= e /\ b.startDate >= s)
    \/ (b.endDate >= s /\ b.endDate <= e)

\* The $or of the conflictingBooking query, on one stored booking.
DateClause(b, s, e) ==
    \/ (b.startDate <= e /\ b.startDate >= s)
    \/ (b.endDate >= s /\ b.endDate <= e)
    \/ (b.startDate <= s /\ b.endDate >= e)

\* Booking.findOne({vehicleId, status: {$in: ['pending', 'active']}, $or: [...]})
conflictingBooking(c, s, e) ==
    {b \in bookings : /\ b.vehicleId = c
                      /\ b.status \in {"pending", "active"}
                      /\ DateClause(b, s, e)}

\* Math.ceil((end - start) / (1000 * 60 * 60 * 24))
durationInDays(s, e) ==
    LET diff == e - s IN
    IF diff >= 0 THEN (diff + MsPerDay - 1) \div MsPerDay
                 ELSE -((-diff) \div MsPerDay)

\* AdditionalService.find({_id: {$in: serviceIds}})
FoundServices(sel) == {sid \in DOMAIN services : \E i \in DOMAIN sel : sel[i] = sid}

\* services.map(service => ({serviceId, name, price}))
bookingAdditionalServices(sel) ==
    {[serviceId |-> sid, price |-> services[sid].price] : sid \in FoundServices(sel)}

RECURSIVE SumPrices(_)
SumPrices(S) ==
    IF S = {} THEN 0
    ELSE LET x == CHOOSE y \in S : TRUE IN services[x].price + SumPrices(S \ {x})

\* the prices summed over the request's array, a repeated id counted each time
RECURSIVE additionalCostPerElement(_)
additionalCostPerElement(sel) ==
    IF Len(sel) = 0 THEN 0
    ELSE (IF Head(sel) \in ServiceIds THEN services[Head(sel)].price ELSE 0)
         + additionalCostPerElement(Tail(sel))

\* services.reduce((sum, service) => sum + service.price, 0)
additionalCost(sel) == SumPrices(FoundServices(sel))

\* totalAmount = vehicle.pricePerDay * durationInDays (+ additionalCost * durationInDays)
totalAmount(c, s, e, sel) ==
    LET base == pricePerDay[c] * durationInDays(s, e) IN
    IF Len(sel) > 0 THEN base + additionalCost(sel) * durationInDays(s, e) ELSE base

\* exports.createBooking
createBooking(u, c, s, e, sel) ==
    LET req == "createBooking" IN
    IF c \notin Cars THEN Reply(req, 404, "vehicle not found")
    ELSE IF ~availability[c] THEN Reply(req, 400, "not available")
    ELSE IF conflictingBooking(c, s, e) # {} THEN Reply(req, 400, "already booked")
    ELSE IF ~BookingValid(s, e, totalAmount(c, s, e, sel)) THEN Reply(req, 500, "validation")
    ELSE /\ nextId <= MaxBookings
         /\ bookings' = bookings \cup
                {NewBooking(nextId, u, c, s, e, totalAmount(c, s, e, sel),
                            IF Len(sel) > 0 THEN bookingAdditionalServices(sel) ELSE {})}
         /\ nextId' = nextId + 1
         /\ ledger' = [ledger EXCEPT ![nextId] = [car |-> c, dec |-> 0, inc |-> 0]]
         /\ last' = Respond(req, 201, "created")
         /\ UNCHANGED <<stock, availability, pricePerDay, services, stock0>>

\* exports.createBooking as its awaited calls interleave, for a request without
\* additional services: slot r holds the request and the call it waits for.
\* await Car.findById(vehicleId) and the two checks on the vehicle
CreateFindCar(r, u, c, s, e) ==
    LET req == "createBooking" IN
    /\ inflight[r].pc = "idle"
    /\ IF c \notin Cars THEN Reply(req, 404, "vehicle not found") /\ UNCHANGED inflight
       ELSE IF ~availability[c] THEN Reply(req, 400, "not available") /\ UNCHANGED inflight
       ELSE /\ inflight' = [inflight EXCEPT ![r] =
                               [Idle EXCEPT !.pc = "findConflict", !.u = u, !.car = c,
                                            !.s = s, !.e = e]]
            /\ UNCHANGED <<store, last>>

\* await Booking.findOne({vehicleId, status, $or}) and its 400
CreateFindConflict(r) ==
    LET q == inflight[r] IN
    /\ q.pc = "findConflict"
    /\ IF conflictingBooking(q.car, q.s, q.e) # {}
       THEN Reply("createBooking", 400, "already booked") /\ inflight' = [inflight EXCEPT ![r] = Idle]
       ELSE inflight' = [inflight EXCEPT ![r].pc = "create"] /\ UNCHANGED <<store, last>>

\* an insert that looks for a conflicting booking again before it writes
CreateInsertRechecking(r) ==
    LET q == inflight[r] IN
    /\ q.pc = "create"
    /\ inflight' = [inflight EXCEPT ![r] = Idle]
    /\ IF conflictingBooking(q.car, q.s, q.e) # {}
       THEN Reply("createBooking", 400, "already booked")
       ELSE IF ~BookingValid(q.s, q.e, totalAmount(q.car, q.s, q.e, << >>))
       THEN Reply("createBooking", 500, "validation")
       ELSE /\ nextId <= MaxBookings
            /\ bookings' = bookings \cup
                   {NewBooking(nextId, q.u, q.car, q.s, q.e, totalAmount(q.car, q.s, q.e, << >>), {})}
            /\ nextId' = nextId + 1
            /\ ledger' = [ledger EXCEPT ![nextId] = [car |-> q.car, dec |-> 0, inc |-> 0]]
            /\ last' = Respond("createBooking", 201, "created")
            /\ UNCHANGED <<stock, availability, pricePerDay, services, stock0>>

\* await Booking.create({...}) and the 201
CreateInsert(r) ==
    LET req == "createBooking"
        q == inflight[r]
    IN
    /\ q.pc = "create"
    /\ inflight' = [inflight EXCEPT ![r] = Idle]
    /\ IF ~BookingValid(q.s, q.e, totalAmount(q.car, q.s, q.e, << >>))
       THEN Reply(req, 500, "validation")
       ELSE /\ nextId <= MaxBookings
            /\ bookings' = bookings \cup
                   {NewBooking(nextId, q.u, q.car, q.s, q.e, totalAmount(q.car, q.s, q.e, << >>), {})}
            /\ nextId' = nextId + 1
            /\ ledger' = [ledger EXCEPT ![nextId] = [car |-> q.car, dec |-> 0, inc |-> 0]]
            /\ last' = Respond(req, 201, "created")
            /\ UNCHANGED <<stock, availability, pricePerDay, services, stock0>>

\* exports.updateBooking
updateBooking(u, id, status, now) ==
    LET req == "updateBooking" IN
    IF id = BadId THEN Reply(req, 500, "cast error")
    ELSE IF ~Exists(id) THEN Reply(req, 404, "booking not found")
    ELSE IF NotOwnerNorAdmin(TheBooking(id), u) THEN Reply(req, 403, "not authorized")
    ELSE IF Role(u) # "admin" /\ TheBooking(id).startDate <= now
         THEN Reply(req, 400, "active or past")
    ELSE IF Role(u) # "admin" /\ status # "cancelled"
         THEN Reply(req, 400, "only cancel")
    ELSE IF status \notin BookingStatuses THEN Reply(req, 500, "validation")
    ELSE /\ bookings' = SetStatus(TheBooking(id), status)
         /\ last' = Respond(req, 200, "updated")
         /\ UNCHANGED <<stock, availability, pricePerDay, services, nextId, ledger, stock0>>

\* exports.deleteBooking, behind authorize('admin')
deleteBooking(u, id) ==
    LET req == "deleteBooking" IN
    IF Role(u) # "admin" THEN Reply(req, 403, "not authorized")
    ELSE IF id = BadId THEN Reply(req, 500, "cast error")
    ELSE IF ~Exists(id) THEN Reply(req, 404, "booking not found")
    ELSE /\ bookings' = bookings \ {TheBooking(id)}
         /\ last' = Respond(req, 200, "deleted")
         /\ UNCHANGED <<stock, availability, pricePerDay, services, nextId, ledger, stock0>>

\* ------------------------------------------------------ reading bookings
\* A response to a read: the ids of the bookings in its body; nothing is written.
Send(req, code, msg, docs) ==
    /\ last' = [Respond(req, code, msg) EXCEPT !.data = {b.id : b \in docs}]
    /\ UNCHANGED store

\* Booking.find(query), query.userId set for a caller who is not an admin
Mine(u) == {b \in bookings : b.userId = u}

\* the listing without query.userId, whoever calls
GetBookingsUnfiltered(u) == Send("getBookingsRoute", 200, "success", bookings)

\* router.get('/', auth.protect, ...); auth.protect puts {id, role} on req.user,
\* and a req.user without id (NoUser) leaves the query empty
GetBookingsRoute(u) ==
    LET req == "getBookingsRoute" IN
    IF Role(u) # "admin" /\ u # NoUser THEN Send(req, 200, "success", Mine(u))
    ELSE Send(req, 200, "success", bookings)

\* router.get('/:id', auth.protect, ...)
GetBookingRoute(u, id) ==
    LET req == "getBookingRoute" IN
    IF id = BadId THEN Send(req, 400, "invalid id", {})
    ELSE IF ~Exists(id) THEN Send(req, 404, "booking not found", {})
    ELSE IF Role(u) # "admin" /\ TheBooking(id).userId # u
         THEN Send(req, 403, "no permission", {})
    ELSE Send(req, 200, "success", {TheBooking(id)})

\* router.get('/user/:userId', auth.protect, ...)
GetUserBookingsRoute(u, userId) ==
    LET req == "getUserBookingsRoute" IN
    IF u # userId /\ Role(u) # "admin" THEN Send(req, 403, "not authorized", {})
    ELSE Send(req, 200, "success", Mine(userId))

\* exports.getBookings
getBookings(u) ==
    LET req == "getBookings" IN
    IF Role(u) # "admin" THEN Send(req, 200, "success", Mine(u))
    ELSE Send(req, 200, "success", bookings)

\* exports.getBooking
getBooking(u, id) ==
    LET req == "getBooking" IN
    IF id = BadId THEN Send(req, 500, "cast error", {})
    ELSE IF ~Exists(id) THEN Send(req, 404, "booking not found", {})
    ELSE IF NotOwnerNorAdmin(TheBooking(id), u) THEN Send(req, 403, "not authorized", {})
    ELSE Send(req, 200, "success", {TheBooking(id)})

\* ------------------------------------- controllers/additionalServiceController
ServicePool == ServiceIds \cup {"cover"}     \* the ids a catalog entry can have
ServiceFound(id) == id \in DOMAIN services
ListedServices == {sid \in DOMAIN services : services[sid].isActive}

\* additionalServiceSchema.price: {min: 0}
ServiceValid(price) == price >= 0

\* a response carrying catalog entries, every document left as it was
SendServices(req, code, msg, ids) ==
    /\ last' = [Respond(req, code, msg) EXCEPT !.data = ids]
    /\ UNCHANGED store

\* exports.createService; the pre('save') hook stamps updatedAt
createService(u, id, price, now) ==
    LET req == "createService" IN
    IF Role(u) # "admin" THEN Reply(req, 403, "not authorized")
    ELSE IF ~ServiceValid(price) THEN Reply(req, 500, "validation")
    ELSE /\ ~ServiceFound(id)
         /\ services' = [sid \in DOMAIN services \cup {id} |->
                            IF sid = id
                            THEN [price |-> price, isActive |-> TRUE, updatedAt |-> now]
                            ELSE services[sid]]
         /\ last' = [Respond(req, 201, "created") EXCEPT !.data = {id}]
         /\ UNCHANGED <<stock, availability, pricePerDay, bookings, nextId, ledger, stock0>>

\* exports.getServices (the order given by sort('name') is not kept in data)
getServices ==
    SendServices("getServices", 200, "success", ListedServices)

\* exports.getService
getService(id) ==
    LET req == "getService" IN
    IF ~ServiceFound(id) THEN Reply(req, 404, "service not found")
    ELSE SendServices(req, 200, "success", {id})

\* an update that also writes the new price into the bookings' stored lines
updateServiceRepricing(u, id, price, isActive) ==
    IF Role(u) # "admin" THEN Reply("updateService", 403, "not authorized")
    ELSE IF ~ServiceFound(id) THEN Reply("updateService", 404, "service not found")
    ELSE IF ~ServiceValid(price) THEN Reply("updateService", 500, "validation")
    ELSE /\ services' = [services EXCEPT ![id].price = price, ![id].isActive = isActive]
         /\ bookings' = {[b EXCEPT !.additionalServices =
                              {IF l.serviceId = id THEN [l EXCEPT !.price = price] ELSE l :
                                  l \in b.additionalServices}] : b \in bookings}
         /\ last' = [Respond("updateService", 200, "updated") EXCEPT !.data = {id}]
         /\ UNCHANGED <<stock, availability, pricePerDay, nextId, ledger, stock0>>

\* exports.updateService, the body giving a price and an active flag;
\* findByIdAndUpdate runs the validators and no save hook
updateService(u, id, price, isActive) ==
    LET req == "updateService" IN
    IF Role(u) # "admin" THEN Reply(req, 403, "not authorized")
    ELSE IF ~ServiceFound(id) THEN Reply(req, 404, "service not found")
    ELSE IF ~ServiceValid(price) THEN Reply(req, 500, "validation")
    ELSE /\ services' = [services EXCEPT ![id].price = price, ![id].isActive = isActive]
         /\ last' = [Respond(req, 200, "updated") EXCEPT !.data = {id}]
         /\ UNCHANGED <<stock, availability, pricePerDay, bookings, nextId, ledger, stock0>>

\* a delete that takes the entry out of the collection
deleteServiceRemoving(u, id, now) ==
    IF Role(u) # "admin" THEN Reply("deleteService", 403, "not authorized")
    ELSE IF ~ServiceFound(id) THEN Reply("deleteService", 404, "service not found")
    ELSE /\ services' = [sid \in DOMAIN services \ {id} |-> services[sid]]
         /\ last' = Respond("deleteService", 200, "deleted")
         /\ UNCHANGED <<stock, availability, pricePerDay, bookings, nextId, ledger, stock0>>

\* exports.deleteService: service.isActive = false; await service.save(), whose
\* pre('save') hook stamps updatedAt
deleteService(u, id, now) ==
    LET req == "deleteService" IN
    IF Role(u) # "admin" THEN Reply(req, 403, "not authorized")
    ELSE IF ~ServiceFound(id) THEN Reply(req, 404, "service not found")
    ELSE /\ services' = [services EXCEPT ![id].isActive = FALSE, ![id].updatedAt = now]
         /\ last' = Respond(req, 200, "deleted")
         /\ UNCHANGED <<stock, availability, pricePerDay, bookings, nextId, ledger, stock0>>

\* ----------------------------------------------- controllers/carController
\* exports.toggleAvailability
toggleAvailability(u, c) ==
    LET req == "toggleAvailability" IN
    IF c \notin Cars THEN Reply(req, 404, "car not found")
    ELSE /\ availability' = [availability EXCEPT ![c] = ~availability[c]]
         /\ last' = Respond(req, 200, "toggled")
         /\ UNCHANGED <<stock, pricePerDay, services, bookings, nextId, ledger, stock0>>

\* --------------------------------------------------------- models/Review
RECURSIVE SumRatings(_)
SumRatings(S) ==
    IF S = {} THEN 0
    ELSE LET x == CHOOSE y \in S : TRUE IN x.rating + SumRatings(S \ {x})

\* Math.round((totalRating / reviewCount) * 10) / 10, in tenths
RoundedMean(total, count) == (20 * total + count) \div (2 * count)

\* avgRating of getAverageRating over the reviews rs
avgRating(rs) == IF Cardinality(rs) > 0 THEN RoundedMean(SumRatings(rs), Cardinality(rs)) ELSE 0

ReviewsOf(rs, c) == {r \in rs : r.carId = c}

\* ReviewSchema.statics.getAverageRating(carId), run by the post hooks on the
\* reviews rs as stored after the write
getAverageRating(rs, c) ==
    IF c \in Cars
    THEN /\ rating' = [rating EXCEPT ![c] = avgRating(ReviewsOf(rs, c))]
         /\ numberOfReviews' = [numberOfReviews EXCEPT ![c] = Cardinality(ReviewsOf(rs, c))]
    ELSE UNCHANGED <<rating, numberOfReviews>>

\* the collection without its unique index: anything may be stored
NoUniqueIndex(rs) == TRUE

\* ReviewSchema.index({userId: 1, carId: 1}, {unique: true}): rs may be stored
UniqueIndexOk(rs) ==
    \A r1, r2 \in rs : (r1.userId = r2.userId /\ r1.carId = r2.carId) => r1.id = r2.id

\* rating: {required, min: 1, max: 5}; userId: {required}
ReviewValid(r) ==
    /\ r.rating >= RatingMin /\ r.rating <= RatingMax
    /\ r.userId # Keep

ReviewFound(id) == \E r \in reviews : r.id = id
TheReview(id) == CHOOSE r \in reviews : r.id = id

ReviewReply(req, code, msg) ==
    /\ last' = Respond(req, code, msg)
    /\ UNCHANGED reviewStore

\* ------------------------------------------- controllers/reviewController
\* exports.createReview; u is NoUser when the request carries no req.user
createReview(u, c, userId, rt) ==
    LET req == "createReview"
        reviewUserId == IF u # NoUser THEN u ELSE userId
        review == [id |-> nextReviewId, userId |-> reviewUserId, carId |-> c, rating |-> rt]
    IN
    IF c \notin Cars THEN ReviewReply(req, 404, "car not found")
    ELSE IF u # NoUser /\ (\E r \in reviews : r.userId = u /\ r.carId = c)
         THEN ReviewReply(req, 400, "already reviewed")
    ELSE IF ~ReviewValid(review) THEN ReviewReply(req, 500, "validation")
    ELSE IF ~UniqueIndexOk(reviews \cup {review}) THEN ReviewReply(req, 500, "duplicate key")
    ELSE /\ nextReviewId <= MaxReviews
         /\ reviews' = reviews \cup {review}
         /\ nextReviewId' = nextReviewId + 1
         /\ getAverageRating(reviews', c)
         /\ last' = Respond(req, 201, "created")

\* {...req.body, updatedAt} applied to the stored review r
UpdatedReview(r, c, userId, rt) ==
    [id |-> r.id,
     userId |-> IF userId = Keep THEN r.userId ELSE userId,
     carId |-> IF c = Keep THEN r.carId ELSE c,
     rating |-> IF rt = RatingMin - 1 THEN r.rating ELSE rt]

\* exports.updateReview; c, userId and rt are the body's carId, userId and rating
\* (Keep, Keep and 0 when absent)
updateReview(u, id, c, userId, rt) ==
    LET req == "updateReview" IN
    IF ~ReviewFound(id) THEN ReviewReply(req, 404, "review not found")
    ELSE IF TheReview(id).userId # u /\ Role(u) # "admin"
         THEN ReviewReply(req, 403, "not authorized")
    ELSE LET doc == UpdatedReview(TheReview(id), c, userId, rt)
             rs == (reviews \ {TheReview(id)}) \cup {doc}
         IN  IF ~ReviewValid(doc) THEN ReviewReply(req, 500, "validation")
             ELSE IF ~UniqueIndexOk(rs) THEN ReviewReply(req, 500, "duplicate key")
             ELSE /\ reviews' = rs
                  /\ getAverageRating(rs, doc.carId)
                  /\ last' = Respond(req, 200, "updated")
                  /\ UNCHANGED nextReviewId

\* a delete that serves whoever is signed in
deleteReviewUnchecked(u, id) ==
    IF ~ReviewFound(id) THEN ReviewReply("deleteReview", 404, "review not found")
    ELSE /\ reviews' = reviews \ {TheReview(id)}
         /\ getAverageRating(reviews', TheReview(id).carId)
         /\ last' = Respond("deleteReview", 200, "deleted")
         /\ UNCHANGED nextReviewId

\* exports.deleteReview
deleteReview(u, id) ==
    LET req == "deleteReview" IN
    IF ~ReviewFound(id) THEN ReviewReply(req, 404, "review not found")
    ELSE IF TheReview(id).userId # u /\ Role(u) # "admin"
         THEN ReviewReply(req, 403, "not authorized")
    ELSE /\ reviews' = reviews \ {TheReview(id)}
         /\ getAverageRating(reviews', TheReview(id).carId)
         /\ last' = Respond(req, 200, "deleted")
         /\ UNCHANGED nextReviewId

\* The review writes as their awaited calls interleave: slot r holds the car
\* whose statistics the post hook of the write recomputes, what getAverageRating
\* has read, and the response to send when the hook returns.
HookIdle == [pc |-> "idle", op |-> "none", code |-> 0, car |-> NoCar, rating |-> 0, count |-> 0]

\* exports.createReview by a signed-in user up to Review.create's insert
CreateReviewInsert(r, u, c, rt) ==
    LET req == "createReview"
        review == [id |-> nextReviewId, userId |-> u, carId |-> c, rating |-> rt]
    IN
    /\ hooks[r].pc = "idle"
    /\ IF c \notin Cars THEN ReviewReply(req, 404, "car not found") /\ UNCHANGED hooks
       ELSE IF \E x \in reviews : x.userId = u /\ x.carId = c
            THEN ReviewReply(req, 400, "already reviewed") /\ UNCHANGED hooks
       ELSE IF ~ReviewValid(review) THEN ReviewReply(req, 500, "validation") /\ UNCHANGED hooks
       ELSE /\ nextReviewId <= MaxReviews
            /\ reviews' = reviews \cup {review}
            /\ nextReviewId' = nextReviewId + 1
            /\ hooks' = [hooks EXCEPT ![r] = [HookIdle EXCEPT !.pc = "find", !.op = req,
                                                              !.code = 201, !.car = c]]
            /\ UNCHANGED <<rating, numberOfReviews, last>>

\* exports.updateReview with a rating in the body, up to findByIdAndUpdate's write
UpdateReviewWrite(r, u, id, rt) ==
    LET req == "updateReview" IN
    /\ hooks[r].pc = "idle"
    /\ IF ~ReviewFound(id) THEN ReviewReply(req, 404, "review not found") /\ UNCHANGED hooks
       ELSE IF TheReview(id).userId # u /\ Role(u) # "admin"
            THEN ReviewReply(req, 403, "not authorized") /\ UNCHANGED hooks
       ELSE IF ~ReviewValid(UpdatedReview(TheReview(id), Keep, Keep, rt))
            THEN ReviewReply(req, 500, "validation") /\ UNCHANGED hooks
       ELSE /\ reviews' = (reviews \ {TheReview(id)})
                              \cup {UpdatedReview(TheReview(id), Keep, Keep, rt)}
            /\ hooks' = [hooks EXCEPT ![r] = [HookIdle EXCEPT !.pc = "find", !.op = req,
                                                              !.code = 200,
                                                              !.car = TheReview(id).carId]]
            /\ UNCHANGED <<nextReviewId, rating, numberOfReviews, last>>

\* exports.deleteReview up to review.remove()'s delete
DeleteReviewRemove(r, u, id) ==
    LET req == "deleteReview" IN
    /\ hooks[r].pc = "idle"
    /\ IF ~ReviewFound(id) THEN ReviewReply(req, 404, "review not found") /\ UNCHANGED hooks
       ELSE IF TheReview(id).userId # u /\ Role(u) # "admin"
            THEN ReviewReply(req, 403, "not authorized") /\ UNCHANGED hooks
       ELSE /\ reviews' = reviews \ {TheReview(id)}
            /\ hooks' = [hooks EXCEPT ![r] = [HookIdle EXCEPT !.pc = "find", !.op = req,
                                                              !.code = 200,
                                                              !.car = TheReview(id).carId]]
            /\ UNCHANGED <<nextReviewId, rating, numberOfReviews, last>>

\* getAverageRating: await this.find({carId}) and the average of what it found
HookFind(r) ==
    LET found == ReviewsOf(reviews, hooks[r].car) IN
    /\ hooks[r].pc = "find"
    /\ hooks' = [hooks EXCEPT ![r].pc = "update",
                              ![r].rating = avgRating(found),
                              ![r].count = Cardinality(found)]
    /\ UNCHANGED <<reviewStore, last>>

\* getAverageRating: await Car.findByIdAndUpdate(carId, {rating, numberOfReviews}),
\* then the handler's response
HookUpdate(r) ==
    LET h == hooks[r] IN
    /\ h.pc = "update"
    /\ rating' = [rating EXCEPT ![h.car] = h.rating]
    /\ numberOfReviews' = [numberOfReviews EXCEPT ![h.car] = h.count]
    /\ last' = Respond(h.op, h.code, "done")
    /\ hooks' = [hooks EXCEPT ![r] = HookIdle]
    /\ UNCHANGED <<reviews, nextReviewId>>

\* ----------------------------------------------------------- specifications
Catalog == [sid \in ServiceIds |->
              [price |-> IF sid = "gps" THEN 10 ELSE 5, isActive |-> TRUE, updatedAt |-> 0]]
Prices == [c \in Cars |-> IF c = "c1" THEN 50 ELSE 80]

InitDocs ==
    /\ availability = [c \in Cars |-> TRUE]
    /\ pricePerDay = Prices
    /\ services = Catalog
    /\ bookings = {}
    /\ nextId = 1
    /\ ledger = [id \in BookingIds |-> NoLedger]
    /\ reviews = {}
    /\ nextReviewId = 1
    /\ rating = [c \in Cars |-> 0]
    /\ numberOfReviews = [c \in Cars |-> 0]
    /\ inflight = [r \in Requests |-> Idle]
    /\ hooks = [r \in Requests |-> HookIdle]
    /\ last = Respond("none", 0, "")

\* Car c1 starts with any stock up to MaxStock.
Init ==
    /\ stock \in {[c \in Cars |-> IF c = "c1" THEN n ELSE 1] : n \in 0 .. MaxStock}
    /\ stock0 = stock
    /\ InitDocs

\* Every car starts with the schema's default stock.
InitDefault ==
    /\ stock = [c \in Cars |-> 1]
    /\ stock0 = stock
    /\ InitDocs

Renters == {"alice"}                \* the users who create bookings
RentedCars == {"c1"}                \* the cars the booking routes are exercised on
RouteTimes == {0, MsPerDay, 2 * MsPerDay}
Clock == {0, MsPerDay}
Amounts == {NoAmount, 100}
StatusInputs == BookingStatuses \cup {"confirmed"}
TargetIds == BookingIds \cup {BadId}

\* The booking routes with their stock handling, one request at a time, the
\* bookings asked for day 0 to day 1 or with dates that fail validation.
PostTimes == {0, MsPerDay}
Next ==
    \/ \E u \in Renters, c \in RentedCars \cup {NoCar}, s, e \in PostTimes, a \in Amounts :
          PostBooking(u, c, s, e, a, "ok") /\ UNCHANGED <<reviewStore, inflight, hooks>>
    \/ \E u \in Renters, body \in {"noRequired", "noLocation"} :
          PostBooking(u, NoCar, 0, 0, NoAmount, body) /\ UNCHANGED <<reviewStore, inflight, hooks>>
    \/ \E u \in Callers, id \in TargetIds :
          ApproveBooking(u, id) /\ UNCHANGED <<reviewStore, inflight, hooks>>
    \/ \E u \in Callers, id \in TargetIds :
          RejectBooking(u, id) /\ UNCHANGED <<reviewStore, inflight, hooks>>
    \/ \E u \in Callers, id \in TargetIds :
          CancelBooking(u, id) /\ UNCHANGED <<reviewStore, inflight, hooks>>
    \/ \E u \in Callers, id \in TargetIds :
          DeleteBookingRoute(u, id) /\ UNCHANGED <<reviewStore, inflight, hooks>>
    \/ \E u \in Callers \cup {NoUser}, id \in TargetIds :
          EmergencyDelete(u, id) /\ UNCHANGED <<reviewStore, inflight, hooks>>
    \/ \E u \in Callers, id \in TargetIds, st \in StatusInputs, now \in Clock :
          updateBooking(u, id, st, now) /\ UNCHANGED <<reviewStore, inflight, hooks>>
    \/ \E u \in Admins, c \in RentedCars :
          toggleAvailability(u, c) /\ UNCHANGED <<reviewStore, inflight, hooks>>
    \/ \E u \in Renters, id \in TargetIds, intent \in {"succeeded", "processing"} :
          ConfirmPayment(u, id, intent) /\ UNCHANGED <<reviewStore, inflight, hooks>>

Spec == Init /\ [][Next]_vars

\* The approval routes on bookings made through POST /bookings, with the owner's
\* cancel and the admin toggle.
NextApproval ==
    \/ \E u \in Renters, c \in RentedCars, s, e \in RouteTimes :
          PostBooking(u, c, s, e, 100, "ok") /\ UNCHANGED <<reviewStore, inflight, hooks>>
    \/ \E u \in Callers, id \in TargetIds :
          ApproveBooking(u, id) /\ UNCHANGED <<reviewStore, inflight, hooks>>
    \/ \E u \in Callers, id \in TargetIds :
          RejectBooking(u, id) /\ UNCHANGED <<reviewStore, inflight, hooks>>
    \/ \E u \in Renters, id \in TargetIds :
          CancelBooking(u, id) /\ UNCHANGED <<reviewStore, inflight, hooks>>
    \/ \E u \in Admins, c \in RentedCars :
          toggleAvailability(u, c) /\ UNCHANGED <<reviewStore, inflight, hooks>>

SpecApproval == Init /\ [][NextApproval]_vars

\* Bookings made through POST /bookings, approved or cancelled, and the two
\* payment handlers on them.
WebhookEvents == {"badSignature", "payment_intent.succeeded", "payment_intent.payment_failed"}
NextPayment ==
    \/ \E u \in Renters, c \in RentedCars, s, e \in RouteTimes :
          PostBooking(u, c, s, e, 100, "ok") /\ UNCHANGED <<reviewStore, inflight, hooks>>
    \/ \E u \in Callers, id \in TargetIds :
          ApproveBooking(u, id) /\ UNCHANGED <<reviewStore, inflight, hooks>>
    \/ \E u \in Renters, id \in TargetIds :
          CancelBooking(u, id) /\ UNCHANGED <<reviewStore, inflight, hooks>>
    \/ \E u \in Renters, id \in TargetIds, intent \in {"succeeded", "processing"} :
          ConfirmPayment(u, id, intent) /\ UNCHANGED <<reviewStore, inflight, hooks>>
    \/ \E event \in WebhookEvents, id \in TargetIds :
          PaymentWebhook(event, id) /\ UNCHANGED <<reviewStore, inflight, hooks>>

SpecPayment == Init /\ [][NextPayment]_vars

\* createBooking requests for car c1 served at the same time, over
\* day ranges that touch or overlap, and the owner's cancel.
RaceRanges == {<<0, MsPerDay>>, <<MsPerDay, 2 * MsPerDay>>, <<MsPerDay, MsPerDay>>}
NextRace ==
    \/ \E r \in Requests, u \in Renters, c \in RentedCars \cup {NoCar}, d \in RaceRanges :
          CreateFindCar(r, u, c, d[1], d[2]) /\ UNCHANGED <<reviewStore, hooks>>
    \/ \E r \in Requests : CreateFindConflict(r) /\ UNCHANGED <<reviewStore, hooks>>
    \/ \E r \in Requests : CreateInsert(r) /\ UNCHANGED <<reviewStore, hooks>>
    \/ \E u \in Renters, id \in BookingIds :
          CancelBooking(u, id) /\ UNCHANGED <<reviewStore, inflight, hooks>>

SpecRace == InitDefault /\ [][NextRace]_vars

\* Bookings of car c1 made through POST /bookings one at a time, and emergency
\* deletes of them served at the same time.
NextEmergency ==
    \/ \E u \in Renters, c \in RentedCars :
          /\ \A r \in Requests : inflight[r].pc = "idle"
          /\ PostBooking(u, c, 0, MsPerDay, 100, "ok")
          /\ UNCHANGED <<reviewStore, inflight, hooks>>
    \/ \E r \in Requests, id \in TargetIds :
          EmergencyFind(r, id) /\ UNCHANGED <<reviewStore, hooks>>
    \/ \E r \in Requests : EmergencyDeleteOne(r) /\ UNCHANGED <<reviewStore, hooks>>
    \/ \E r \in Requests : EmergencyFindCar(r) /\ UNCHANGED <<reviewStore, hooks>>
    \/ \E r \in Requests : EmergencySaveCar(r) /\ UNCHANGED <<reviewStore, hooks>>

SpecEmergency == Init /\ [][NextEmergency]_vars

\* Bookings of two users that start on day 0 or on day 1, and updateBooking
\* requests of the two users, who are no admins, at time 0 or a day later.
UpdateRanges == {<<0, MsPerDay>>, <<MsPerDay, 2 * MsPerDay>>}
NextUpdate ==
    \/ \E u \in Users, c \in Cars, d \in UpdateRanges :
          createBooking(u, c, d[1], d[2], << >>) /\ UNCHANGED <<reviewStore, inflight, hooks>>
    \/ \E u \in Users, id \in TargetIds, st \in StatusInputs, now \in Clock :
          updateBooking(u, id, st, now) /\ UNCHANGED <<reviewStore, inflight, hooks>>

SpecUpdate == InitDefault /\ [][NextUpdate]_vars

\* bookingController.createBooking against stored bookings of every status:
\* requests for car c1 over every pair of days, for car c2 over the whole span;
\* the admin sets the status of the first booking, the later ones stay pending.
WholeSpan == <<0, MaxDays * MsPerDay>>
FirstBooking == {b.id : b \in {x \in bookings : \A y \in bookings : x.id <= y.id}}
NextConflict ==
    \/ \E u \in Renters, s, e \in Days :
          createBooking(u, "c1", s, e, << >>) /\ UNCHANGED <<reviewStore, inflight, hooks>>
    \/ \E u \in Renters, c \in {"c2", NoCar} :
          createBooking(u, c, WholeSpan[1], WholeSpan[2], << >>) /\ UNCHANGED <<reviewStore, inflight, hooks>>
    \/ \E u \in Admins, id \in FirstBooking, st \in BookingStatuses :
          updateBooking(u, id, st, 0) /\ UNCHANGED <<reviewStore, inflight, hooks>>
    \/ \E u \in Admins :
          toggleAvailability(u, "c1") /\ UNCHANGED <<reviewStore, inflight, hooks>>

SpecConflict == InitDefault /\ [][NextConflict]_vars

\* Both creation handlers on one car, with the failures of the POST route, the
\* deletes and the admin toggle; a failing car.save() is tried while the stock
\* is within MaxStock.
NextStock ==
    \/ \E u \in Renters, c \in RentedCars \cup {NoCar}, s, e \in RouteTimes, a \in Amounts :
          PostBooking(u, c, s, e, a, "ok") /\ UNCHANGED <<reviewStore, inflight, hooks>>
    \/ \E u \in Renters, c \in RentedCars \cup {NoCar} :
          /\ c \in Cars => stock[c] <= MaxStock
          /\ PostBooking(u, c, 0, MsPerDay, 100, "lookupFails")
          /\ UNCHANGED <<reviewStore, inflight, hooks>>
    \/ \E u \in Renters, c \in RentedCars :
          /\ stock[c] <= MaxStock
          /\ PostBooking(u, c, 0, MsPerDay, 100, "carSaveFails")
          /\ UNCHANGED <<reviewStore, inflight, hooks>>
    \/ \E u \in Renters, c \in RentedCars, s, e \in RouteTimes :
          createBooking(u, c, s, e, << >>) /\ UNCHANGED <<reviewStore, inflight, hooks>>
    \/ \E u \in Renters, id \in TargetIds :
          DeleteBookingRoute(u, id) /\ UNCHANGED <<reviewStore, inflight, hooks>>
    \/ \E id \in TargetIds :
          EmergencyDelete(NoUser, id) /\ UNCHANGED <<reviewStore, inflight, hooks>>
    \/ \E u \in Admins, c \in RentedCars :
          toggleAvailability(u, c) /\ UNCHANGED <<reviewStore, inflight, hooks>>

SpecStock == InitDefault /\ [][NextStock]_vars

\* Bookings of two users on two cars, read by every caller through both routers.
NextAccess ==
    \/ \E u \in Users, c \in Cars :
          createBooking(u, c, WholeSpan[1], WholeSpan[2], << >>) /\ UNCHANGED <<reviewStore, inflight, hooks>>
    \/ \E u \in Callers, id \in TargetIds :
          deleteBooking(u, id) /\ UNCHANGED <<reviewStore, inflight, hooks>>
    \/ \E u \in Callers :
          GetBookingsRoute(u) /\ UNCHANGED <<reviewStore, inflight, hooks>>
    \/ \E u \in Callers, id \in TargetIds :
          GetBookingRoute(u, id) /\ UNCHANGED <<reviewStore, inflight, hooks>>
    \/ \E u \in Callers, userId \in Users :
          GetUserBookingsRoute(u, userId) /\ UNCHANGED <<reviewStore, inflight, hooks>>
    \/ \E u \in Callers :
          getBookings(u) /\ UNCHANGED <<reviewStore, inflight, hooks>>
    \/ \E u \in Callers, id \in TargetIds :
          getBooking(u, id) /\ UNCHANGED <<reviewStore, inflight, hooks>>

SpecAccess == InitDefault /\ [][NextAccess]_vars

\* POST /bookings requests on car c1 served at the same time, each awaited call a
\* step of its own, with the admin toggle between them. A request is taken up
\* while the stock is no more than the car started with, and a failed one reads
\* the car again while the stock is within MaxStock.
NextInterleaved ==
    \/ \E r \in Requests, u \in Renters, c \in RentedCars \cup {NoCar}, e \in {0, MsPerDay} :
          /\ c \in Cars => stock[c] <= stock0[c]
          /\ PostFindCar(r, u, c, 0, e)
          /\ UNCHANGED <<reviewStore, hooks>>
    \/ \E r \in Requests : PostSaveCar(r) /\ UNCHANGED <<reviewStore, hooks>>
    \/ \E r \in Requests : PostSaveBooking(r) /\ UNCHANGED <<reviewStore, hooks>>
    \/ \E r \in Requests :
          /\ inflight[r].car \in Cars => stock[inflight[r].car] <= MaxStock
          /\ PostCatchFindCar(r)
          /\ UNCHANGED <<reviewStore, hooks>>
    \/ \E r \in Requests : PostCatchSaveCar(r) /\ UNCHANGED <<reviewStore, hooks>>
    \/ \E u \in Admins, c \in RentedCars :
          toggleAvailability(u, c) /\ UNCHANGED <<reviewStore, inflight, hooks>>

SpecInterleaved == InitDefault /\ [][NextInterleaved]_vars

\* The catalog's handlers: every caller reads, every signed-in caller asks for a
\* change, with a price the schema accepts or not.
ServicePrices == {5, 20, -1}
NextService ==
    \/ \E u \in Callers, id \in ServicePool, price \in ServicePrices, now \in Clock :
          createService(u, id, price, now) /\ UNCHANGED <<reviewStore, inflight, hooks>>
    \/ getServices /\ UNCHANGED <<reviewStore, inflight, hooks>>
    \/ \E id \in ServicePool \cup {NoService} :
          getService(id) /\ UNCHANGED <<reviewStore, inflight, hooks>>
    \/ \E u \in Callers, id \in ServicePool, price \in ServicePrices, isActive \in BOOLEAN :
          updateService(u, id, price, isActive) /\ UNCHANGED <<reviewStore, inflight, hooks>>
    \/ \E u \in Callers, id \in ServicePool, now \in Clock :
          deleteService(u, id, now) /\ UNCHANGED <<reviewStore, inflight, hooks>>

SpecService == InitDefault /\ [][NextService]_vars

\* Bookings made with additional services while the admin reprices and deletes
\* catalog entries.
CatalogPrices == {20}
CatalogCallers == Renters \cup Admins
NextCatalog ==
    \/ \E u \in Renters, c \in Cars, sel \in Selections :
          /\ nextId <= MaxPriced
          /\ createBooking(u, c, 0, MsPerDay, sel)
          /\ UNCHANGED <<reviewStore, inflight, hooks>>
    \/ \E u \in CatalogCallers, id \in ServiceIds \cup {NoService}, price \in CatalogPrices,
             isActive \in BOOLEAN :
          updateService(u, id, price, isActive) /\ UNCHANGED <<reviewStore, inflight, hooks>>
    \/ \E u \in CatalogCallers, id \in ServiceIds \cup {NoService}, now \in {MsPerDay} :
          deleteService(u, id, now) /\ UNCHANGED <<reviewStore, inflight, hooks>>

SpecCatalog == InitDefault /\ [][NextCatalog]_vars

\* bookingController.createBooking over half-day dates, starting on day 0 or half
\* a day later, and every selection of additional services.
StartTimes == {0, HalfDay}
NextPricing ==
    \/ \E u \in Renters, c \in Cars, s \in StartTimes, e \in Times, sel \in Selections :
          /\ nextId <= MaxPriced
          /\ createBooking(u, c, s, e, sel)
          /\ UNCHANGED <<reviewStore, inflight, hooks>>

SpecPricing == InitDefault /\ [][NextPricing]_vars

Stars == {RatingMin, RatingMax}     \* the ratings reviews are written with
RatingInputs == Stars \cup {RatingMin - 1, RatingMax + 1}
NoRating == RatingMin - 1           \* rating absent from the request body

\* The review handlers, one request at a time. An update body changes no field
\* or one of carId, userId and rating; the bodies that move a review to another
\* car or user come from the admin, who may update every review.
NextReview ==
    \/ \E u \in Users, c \in Cars \cup {NoCar}, rt \in RatingInputs :
          createReview(u, c, Keep, rt) /\ UNCHANGED <<store, inflight, hooks>>
    \/ \E c \in Cars, userId \in Users \cup {Keep}, rt \in Stars :
          createReview(NoUser, c, userId, rt) /\ UNCHANGED <<store, inflight, hooks>>
    \/ \E u \in Admins, id \in ReviewIds, c \in Cars \cup {Keep} :
          updateReview(u, id, c, Keep, NoRating) /\ UNCHANGED <<store, inflight, hooks>>
    \/ \E u \in Admins, id \in ReviewIds, userId \in Users :
          updateReview(u, id, Keep, userId, NoRating) /\ UNCHANGED <<store, inflight, hooks>>
    \/ \E u \in Callers, id \in ReviewIds, rt \in RatingInputs \ {NoRating} :
          updateReview(u, id, Keep, Keep, rt) /\ UNCHANGED <<store, inflight, hooks>>
    \/ \E u \in Callers, id \in ReviewIds :
          deleteReview(u, id) /\ UNCHANGED <<store, inflight, hooks>>

SpecReview == InitDefault /\ [][NextReview]_vars

\* Reviews written by signed-in users, then updated and deleted by every caller.
NextReviewAuth ==
    \/ \E u \in Users, c \in Cars, rt \in Stars :
          createReview(u, c, Keep, rt) /\ UNCHANGED <<store, inflight, hooks>>
    \/ \E u \in Callers, id \in ReviewIds, c \in Cars :
          updateReview(u, id, c, Keep, NoRating) /\ UNCHANGED <<store, inflight, hooks>>
    \/ \E u \in Callers, id \in ReviewIds, rt \in Stars :
          updateReview(u, id, Keep, Keep, rt) /\ UNCHANGED <<store, inflight, hooks>>
    \/ \E u \in Callers, id \in ReviewIds :
          deleteReview(u, id) /\ UNCHANGED <<store, inflight, hooks>>

SpecReviewAuth == InitDefault /\ [][NextReviewAuth]_vars

\* Review writes on car c1 served at the same time, each with its post hook.
NextReviewRace ==
    \/ \E r \in Requests, u \in Users, c \in RentedCars \cup {NoCar}, rt \in Stars :
          CreateReviewInsert(r, u, c, rt) /\ UNCHANGED <<store, inflight>>
    \/ \E r \in Requests, u \in Users, id \in ReviewIds, rt \in Stars :
          UpdateReviewWrite(r, u, id, rt) /\ UNCHANGED <<store, inflight>>
    \/ \E r \in Requests, u \in Users, id \in ReviewIds :
          DeleteReviewRemove(r, u, id) /\ UNCHANGED <<store, inflight>>
    \/ \E r \in Requests : HookFind(r) /\ UNCHANGED <<store, inflight>>
    \/ \E r \in Requests : HookUpdate(r) /\ UNCHANGED <<store, inflight>>

SpecReviewRace == InitDefault /\ [][NextReviewRace]_vars

\* ------------------------------------------------------------------ claims
\* The stored bookings that block the range [s, e] on car c: status pending or
\* active, and ranges overlapping with inclusive bounds.
Blocking(c, s, e) ==
    {b \in bookings : /\ b.vehicleId = c
                      /\ b.status \in {"pending", "active"}
                      /\ b.startDate <= e /\ b.endDate >= s}

\* C1: a POST /bookings request for a car that has a pending or active booking
\* overlapping the requested range fails with an error status, stores no booking
\* and leaves the stock as it was.
C1_PostRejectsOverlap ==
    [][\A u \in Renters, c \in RentedCars, s, e \in RouteTimes, a \in Amounts :
          (PostBooking(u, c, s, e, a, "ok") /\ Blocking(c, s, e) # {})
              => (last'.code >= 400 /\ bookings' = bookings /\ stock' = stock)]_vars


\* C3: a successful POST /bookings takes exactly 1 from the car's stock, leaves
\* availability false exactly when the new stock is 0, and stores one new
\* booking with status pending and paymentStatus pending.
C3_PostDecrementsStock ==
    [][(last'.op = "postBooking" /\ last'.code = 201) =>
        \A u \in Renters, c \in RentedCars, s, e \in RouteTimes, a \in Amounts :
          PostBooking(u, c, s, e, a, "ok")
              => /\ stock' = [stock EXCEPT ![c] = stock[c] - 1]
                 /\ (availability'[c] = FALSE) <=> (stock'[c] = 0)
                 /\ \A d \in Cars \ {c} : availability'[d] = availability[d]
                 /\ \E b \in bookings' \ bookings :
                       /\ bookings' = bookings \cup {b}
                       /\ b.vehicleId = c /\ b.userId = u
                       /\ b.status = "pending" /\ b.paymentStatus = "pending"]_vars

\* A car that started with stock 1 has just been booked: stock 0, not available.
C3_Witness ==
    /\ last.op = "postBooking" /\ last.code = 201
    /\ stock0["c1"] = 1 /\ stock["c1"] = 0 /\ ~availability["c1"]
    /\ \E b \in bookings : b.vehicleId = "c1" /\ b.status = "pending" /\ b.paymentStatus = "pending"

Authorized(b, u) == b.userId = u \/ Role(u) = "admin"

\* C4: cancelling a pending booking, by PUT /bookings/:id/cancel or by
\* updateBooking with status cancelled, as its owner or an admin, sets the status
\* to cancelled, adds exactly 1 to the car's stock and leaves the car available.
C4_CancelRestoresStock ==
    [][\A u \in Callers, id \in BookingIds, now \in Clock :
          ((CancelBooking(u, id) \/ (updateBooking(u, id, "cancelled", now) /\ last'.code = 200))
             /\ Exists(id) /\ TheBooking(id).status = "pending" /\ Authorized(TheBooking(id), u))
              => LET c == TheBooking(id).vehicleId IN
                 /\ bookings' = SetStatus(TheBooking(id), "cancelled")
                 /\ stock'[c] = stock[c] + 1
                 /\ availability'[c]]_vars

\* C5: a cancel request on a booking that is cancelled or completed changes
\* neither the stored bookings nor any car's stock.
C5_CancelOnlyPendingOrActive ==
    [][\A u \in Callers, id \in BookingIds :
          (CancelBooking(u, id) /\ Exists(id)
             /\ TheBooking(id).status \in {"cancelled", "completed"})
              => (bookings' = bookings /\ stock' = stock)]_vars

\* C6: DELETE /bookings/:id by the owner or an admin, on a booking that is not
\* cancelled and has had no stock restored for it, removes the booking, adds
\* exactly 1 to the car's stock and leaves the car available.
C6_DeleteRestoresStock ==
    [][\A u \in Callers, id \in BookingIds :
          (DeleteBookingRoute(u, id) /\ Exists(id) /\ Authorized(TheBooking(id), u)
             /\ TheBooking(id).status # "cancelled" /\ ledger[id].inc = 0)
              => LET c == TheBooking(id).vehicleId IN
                 /\ bookings' = bookings \ {TheBooking(id)}
                 /\ stock'[c] = stock[c] + 1
                 /\ availability'[c]]_vars

\* C7: for a booking created by POST /bookings (one decrement), the cancel,
\* reject, delete and emergency-delete requests restore stock at most once, and
\* no car's stock exceeds the stock it started with.
C7_StockRestoredAtMostOnce ==
    /\ \A id \in BookingIds : ledger[id].dec = 1 => ledger[id].inc <= 1
    /\ \A c \in Cars : stock[c] <= stock0[c]

\* A booking made by POST /bookings has just been emergency-deleted, and its one
\* restore has brought the stock back to where it started.
C7_Witness ==
    \E id \in BookingIds :
        /\ ledger[id].dec = 1 /\ ledger[id].inc = 1
        /\ ~Exists(id)
        /\ last.op = "emergencyDelete"
        /\ stock[ledger[id].car] = stock0[ledger[id].car]


\* C2 as stated: for every range with startDate < endDate, createBooking answers
\* 400 'Vehicle is already booked for these dates' if and only if a stored booking
\* of the same vehicle with status pending or active overlaps the range inclusively.
C2_RejectIffConflict ==
    [][(last'.op = "createBooking") =>
        \A u \in Renters, c \in Cars, s, e \in Days :
          (s < e /\ createBooking(u, c, s, e, << >>))
              => ((last'.code = 400 /\ last'.msg = "already booked") <=> Blocking(c, s, e) # {})]_vars

\* C2 amended: the same, for a vehicle whose availability is true; and a rejected
\* request stores nothing.
C2_RejectIffConflictWhenAvailable ==
    [][(last'.op = "createBooking") =>
        \A u \in Renters, c \in Cars, s, e \in Days :
          (s < e /\ availability[c] /\ createBooking(u, c, s, e, << >>))
              => /\ (last'.code = 400 /\ last'.msg = "already booked") <=> Blocking(c, s, e) # {}
                 /\ Blocking(c, s, e) # {} => bookings' = bookings
                 /\ Blocking(c, s, e) = {} => last'.code = 201]_vars

\* A request was just rejected as already booked while car c1 holds exactly one
\* blocking booking, which ends on day 1, and a cancelled booking as well.
C2_Witness ==
    /\ last.op = "createBooking" /\ last.code = 400 /\ last.msg = "already booked"
    /\ availability["c1"]
    /\ \E b1, b2 \in bookings :
          /\ b1.vehicleId = "c1" /\ b1.status = "pending" /\ b1.endDate = MsPerDay
          /\ b2.vehicleId = "c1" /\ b2.status = "cancelled"


\* The least whole number of days covering e - s, for s < e.
WholeDays(s, e) ==
    CHOOSE d \in 1 .. MaxHalfDays : d * MsPerDay >= e - s /\ (d - 1) * MsPerDay < e - s

\* The catalog prices of the distinct selected services that exist, summed.
SelectedCost(sel) ==
    LET chosen == {sel[i] : i \in DOMAIN sel} IN
    (IF "gps" \in chosen THEN services["gps"].price ELSE 0)
      + (IF "seat" \in chosen THEN services["seat"].price ELSE 0)

\* C10: the booking createBooking stores has totalAmount = D * pricePerDay +
\* D * (the catalog prices of the distinct selected services that exist), D the
\* days of the range rounded up; 100 for 50 a day over 2 days, 120 with one
\* service of 10 a day.
C10_TotalAmount ==
    [][(last'.op = "createBooking" /\ last'.code = 201) =>
        \A u \in Renters, c \in Cars, s \in StartTimes, e \in Times, sel \in Selections :
          ((\E b \in bookings' : b.vehicleId = c /\ b.startDate = s /\ b.endDate = e)
             /\ createBooking(u, c, s, e, sel)) =>
            \E b \in bookings' \ bookings :
               /\ bookings' = bookings \cup {b}
               /\ b.totalAmount = WholeDays(s, e) * pricePerDay[c]
                                    + WholeDays(s, e) * SelectedCost(sel)
               /\ (pricePerDay[c] = 50 /\ e - s = 2 * MsPerDay /\ sel = << >>)
                     => b.totalAmount = 100
               /\ (pricePerDay[c] = 50 /\ e - s = 2 * MsPerDay /\ sel = <<"gps">>
                     /\ services["gps"].price = 10)
                     => b.totalAmount = 120]_vars

\* Car c1, 50 a day, has just been booked for exactly 2 days with the one service
\* of 10 a day, for 120; another stored booking covers a day and a half, charged
\* as 2 days.
C10_Witness ==
    /\ last.op = "createBooking" /\ last.code = 201
    /\ \E b \in bookings :
          /\ b.vehicleId = "c1" /\ pricePerDay["c1"] = 50
          /\ b.endDate - b.startDate = 2 * MsPerDay
          /\ b.additionalServices = {[serviceId |-> "gps", price |-> 10]}
          /\ b.totalAmount = 120
    /\ \E b \in bookings :
          /\ b.endDate - b.startDate = 3 * HalfDay
          /\ b.totalAmount = 2 * pricePerDay[b.vehicleId]


RatingTotal(c) == SumRatings(ReviewsOf(reviews, c))
\* r, in tenths, is the mean total / count rounded to one decimal, halves up.
IsMeanToOneDecimal(r, total, count) ==
    /\ 2 * (10 * total - r * count) <= count
    /\ 2 * (r * count - 10 * total) < count

\* C8: every car's numberOfReviews is the number of stored reviews for it, and
\* its rating is their mean rounded to one decimal, 0 when there are none.
C8_CarStatsMatchReviews ==
    \A c \in Cars :
        LET n == Cardinality(ReviewsOf(reviews, c)) IN
        /\ numberOfReviews[c] = n
        /\ IF n = 0 THEN rating[c] = 0 ELSE IsMeanToOneDecimal(rating[c], RatingTotal(c), n)

\* C9: no two stored reviews share (userId, carId); and a createReview for a pair
\* that has a review, with or without req.user, gets an error response, stores no
\* review and leaves every car's rating and numberOfReviews as they were.
C9_OneReviewPerUserAndCar ==
    /\ [](\A r1, r2 \in reviews : (r1.userId = r2.userId /\ r1.carId = r2.carId) => r1 = r2)
    /\ [][(last'.op = "createReview") =>
            \A u \in Users \cup {NoUser}, c \in Cars, userId \in Users \cup {Keep}, rt \in RatingInputs :
              ((u = NoUser <=> userId # Keep)
                 /\ (\E r \in reviews : r.carId = c /\ r.userId = (IF u # NoUser THEN u ELSE userId))
                 /\ createReview(u, c, userId, rt))
                  => /\ last'.code >= 400
                     /\ reviews' = reviews
                     /\ rating' = rating /\ numberOfReviews' = numberOfReviews]_vars

\* An unauthenticated second review for a pair was just refused by the index,
\* and an authenticated one can be refused too: the pair's review is stored once.
C9_Witness ==
    /\ last.op = "createReview" /\ last.code = 500 /\ last.msg = "duplicate key"
    /\ \E r \in reviews : r.userId = "alice" /\ r.carId = "c1"
    /\ numberOfReviews["c1"] = 1

RECURSIVE SumLines(_)
SumLines(L) ==
    IF L = {} THEN 0
    ELSE LET x == CHOOSE y \in L : TRUE IN x.price + SumLines(L \ {x})

\* The amount derived for booking b: its days times the car's daily rate, plus
\* its days times the prices of its additional services.
DerivedAmount(b) ==
    durationInDays(b.startDate, b.endDate) * pricePerDay[b.vehicleId]
      + durationInDays(b.startDate, b.endDate) * SumLines(b.additionalServices)

\* C11: every stored booking, whichever handler created it, has totalAmount equal
\* to the amount derived from its dates, its car and its additional services.
C11_StoredAmountIsDerived ==
    \A b \in bookings : b.totalAmount = DerivedAmount(b)

\* C12: a creation request with startDate before endDate, to the POST route or to
\* createBooking, for a car whose stock is 0 gets a 4xx response, stores no booking and leaves the stock
\* at 0, whether the car's availability is true or false.
C12_NoCreationAtZeroStock ==
    [][(last'.op \in {"postBooking", "createBooking"}) =>
        \A u \in Renters, c \in RentedCars, s, e \in RouteTimes, a \in Amounts :
          (stock[c] = 0 /\ s < e
             /\ (PostBooking(u, c, s, e, a, "ok") \/ createBooking(u, c, s, e, << >>)))
              => /\ last'.code >= 400 /\ last'.code < 500
                 /\ bookings' = bookings
                 /\ stock'[c] = 0]_vars

\* C13: a caller who is not an admin is refused with 403 by GET /bookings/:id,
\* in either router, for a booking of another user, and every booking listed to
\* such a caller by GET /bookings, in either router, or by GET
\* /bookings/user/:userId has the caller's id as its userId.
C13_OnlyOwnBookingsRead ==
    [][(last'.op \in {"getBookingsRoute", "getBookingRoute", "getUserBookingsRoute",
                      "getBookings", "getBooking"}) =>
        \A u \in Users, id \in BookingIds, userId \in Users :
          /\ ((GetBookingRoute(u, id) \/ getBooking(u, id))
                /\ Exists(id) /\ TheBooking(id).userId # u)
               => (last'.code = 403 /\ last'.data = {})
          /\ (GetBookingsRoute(u) \/ getBookings(u) \/ GetUserBookingsRoute(u, userId))
               => \A i \in last'.data : Exists(i) /\ TheBooking(i).userId = u]_vars

\* alice and bob each have a booking, and a listing has just returned one of the
\* two only.
C13_Witness ==
    /\ last.op = "getBookingsRoute" /\ last.code = 200
    /\ \E b1, b2 \in bookings :
          /\ b1.userId = "alice" /\ b2.userId = "bob"
          /\ last.data = {b1.id}

\* C14: a request by a caller who is neither the booking's owner nor an admin,
\* to update, cancel, delete, emergency delete, approve, reject or payment
\* confirmation, leaves the stored bookings as they were, and so does an approve
\* or a reject by a caller who is not an admin.
C14_OnlyOwnerOrAdminMutates ==
    [][\A u \in Callers \cup {NoUser}, id \in BookingIds :
          /\ (Exists(id) /\ ~Authorized(TheBooking(id), u)
                /\ \/ CancelBooking(u, id) \/ DeleteBookingRoute(u, id) \/ EmergencyDelete(u, id)
                   \/ ApproveBooking(u, id) \/ RejectBooking(u, id)
                   \/ \E st \in StatusInputs, now \in Clock : updateBooking(u, id, st, now)
                   \/ \E intent \in {"succeeded", "processing"} : ConfirmPayment(u, id, intent))
               => bookings' = bookings
          /\ (Exists(id) /\ Role(u) # "admin" /\ (ApproveBooking(u, id) \/ RejectBooking(u, id)))
               => bookings' = bookings]_vars

AllowedMoves ==
    {<<"pending", "active">>, <<"active", "completed">>,
     <<"pending", "cancelled">>, <<"active", "cancelled">>}

\* C15: whenever a request changes the status of a stored booking, the change is
\* one of pending -> active, active -> completed, pending -> cancelled and
\* active -> cancelled; a cancelled or completed booking keeps its status.
C15_StatusOnlyMovesForward ==
    [][\A b \in bookings, b2 \in bookings' :
          (b2.id = b.id /\ b2.status # b.status) => <<b.status, b2.status>> \in AllowedMoves]_vars

\* C16: an approve or a reject leaves every car's stock and availability as they
\* were and changes no stored booking but the targeted one, of which it changes
\* the status only.
C16_ApproveRejectFrame ==
    [][(last'.op \in {"approve", "reject"}) =>
        \A u \in Callers, id \in TargetIds :
          (IF last'.op = "approve" THEN ApproveBooking(u, id) ELSE RejectBooking(u, id))
              => /\ stock' = stock /\ availability' = availability
                 /\ {b \in bookings : b.id # id} = {b \in bookings' : b.id # id}
                 /\ Exists(id) =>
                       \E b2 \in bookings' :
                          /\ b2 = [TheBooking(id) EXCEPT !.status = b2.status]
                          /\ bookings' = (bookings \ {TheBooking(id)}) \cup {b2}]_vars

\* A booking has just been rejected while another one is stored, and the car
\* they were made for still has no stock.
C16_Witness ==
    /\ last.op = "reject" /\ last.code = 200
    /\ \E b1, b2 \in bookings :
          /\ b1.id # b2.id /\ b1.vehicleId = b2.vehicleId
          /\ b1.status = "cancelled" /\ b2.status = "pending"
          /\ stock[b1.vehicleId] = 0 /\ ~availability[b1.vehicleId]

\* C17: a POST /bookings request answered with an error status has stored no
\* booking and has left every car's stock and availability as they were before
\* the request.
C17_FailedPostLeavesNoTrace ==
    [][(last'.op = "postBooking" /\ last'.code >= 400)
          => (bookings' = bookings /\ stock' = stock /\ availability' = availability)]_vars

\* C18: no car has stock 0 together with availability true.
C18_NoStockMeansUnavailable ==
    \A c \in Cars : ~(stock[c] = 0 /\ availability[c])

\* C19: no car's stock is ever negative, POST /bookings requests on one car
\* being served at the same time; and a request that finds the car with stock 0
\* is answered 400 and leaves the stock at 0.
C19_StockNeverNegative ==
    /\ [](\A c \in Cars : stock[c] >= 0)
    /\ [][\A r \in Requests, u \in Renters, c \in RentedCars, e \in {0, MsPerDay} :
            (stock[c] = 0 /\ PostFindCar(r, u, c, 0, e))
                => (last'.code = 400 /\ stock'[c] = 0 /\ inflight' = inflight)]_vars

\* Two requests passed the stock test on the one unit of car c1 and both stored
\* a booking; the car was then made available by the admin, and the next request
\* has just been refused for lack of stock.
C19_Witness ==
    /\ stock0["c1"] = 1 /\ stock["c1"] = 0 /\ availability["c1"]
    /\ Cardinality({b \in bookings : b.vehicleId = "c1"}) = 2
    /\ last.op = "postBooking" /\ last.code = 400 /\ last.msg = "out of stock"

\* C20: deleteService by an admin on a stored service keeps every catalog entry
\* stored, changes on the targeted entry only isActive, to false (its save hook
\* stamps updatedAt), and leaves every other entry as it was; a service that is
\* not active is never in the getServices listing, and getService answers 200
\* with any stored service, active or not.
C20_DeleteServiceIsSoft ==
    /\ [](ServiceIds \subseteq DOMAIN services)
    /\ [][(\A u \in Callers, id \in ServicePool, now \in Clock :
              (Role(u) = "admin" /\ ServiceFound(id) /\ deleteService(u, id, now))
                  => (/\ DOMAIN services' = DOMAIN services
                      /\ services'[id] = [services[id] EXCEPT !.isActive = FALSE,
                                                              !.updatedAt = now]
                      /\ \A o \in DOMAIN services \ {id} : services'[o] = services[o]
                      /\ last'.code = 200))
           /\ (getServices
                 => \A sid \in DOMAIN services :
                        ~services[sid].isActive => sid \notin last'.data)
           /\ (\A id \in DOMAIN services :
                 getService(id) => (last'.code = 200 /\ last'.data = {id}))]_vars

\* The gps service was deleted by the admin and has just been fetched by id.
C20_Witness ==
    /\ ServiceFound("gps") /\ ~services["gps"].isActive
    /\ services["gps"].price = Catalog["gps"].price
    /\ services["gps"].updatedAt = MsPerDay
    /\ services["seat"] = Catalog["seat"]
    /\ last.op = "getService" /\ last.code = 200 /\ last.data = {"gps"}

\* C21: a booking is created with the catalog prices of that moment in its
\* additionalServices, and an updateService or a deleteService leaves the
\* stored bookings, their additionalServices and totalAmount included, as they
\* were.
C21_BookingKeepsSnapshot ==
    [][/\ (last'.op \in {"updateService", "deleteService"}) =>
             \A u \in CatalogCallers, id \in ServiceIds \cup {NoService} :
                ((\E price \in CatalogPrices, isActive \in BOOLEAN :
                       updateService(u, id, price, isActive))
                   \/ (\E now \in {MsPerDay} : deleteService(u, id, now)))
                  => /\ {b.id : b \in bookings'} = {b.id : b \in bookings}
                     /\ \A b \in bookings : \E b2 \in bookings' :
                           /\ b2.id = b.id
                           /\ b2.additionalServices = b.additionalServices
                           /\ b2.totalAmount = b.totalAmount
       /\ (last'.op = "createBooking" /\ last'.code = 201) =>
             \A b \in bookings' \ bookings : \A l \in b.additionalServices :
                l.price = services[l.serviceId].price]_vars

\* Booking 1 holds the gps service at the price of 10 it was created with, and
\* the admin has just set the catalog price of gps to 20.
C21_Witness ==
    /\ last.op = "updateService" /\ last.code = 200
    /\ services["gps"].price = 20
    /\ \E b \in bookings :
          /\ [serviceId |-> "gps", price |-> 10] \in b.additionalServices
          /\ b.totalAmount = pricePerDay[b.vehicleId] + SumLines(b.additionalServices)

\* C22: an updateReview or a deleteReview on a stored review by a caller who is
\* neither its author nor an admin is answered 403 and leaves the reviews and
\* every car's rating and numberOfReviews as they were; so a step of these
\* handlers that changes or removes a review is made by its author or an admin.
C22_ReviewOwnerOrAdmin ==
    [][(last'.op \in {"updateReview", "deleteReview"}) =>
         \A id \in {r.id : r \in reviews} :
            \A u \in {v \in Callers : TheReview(id).userId # v /\ Role(v) # "admin"} :
               (IF last'.op = "deleteReview" THEN deleteReview(u, id)
                ELSE \/ \E c \in Cars \cup {Keep} : updateReview(u, id, c, Keep, NoRating)
                     \/ \E userId \in Users : updateReview(u, id, Keep, userId, NoRating)
                     \/ \E rt \in RatingInputs : updateReview(u, id, Keep, Keep, rt))
                  => (last'.code = 403 /\ UNCHANGED reviewStore)]_vars

\* bob has just been refused the deletion of alice's review of car c1, which
\* is still stored and counted.
C22_Witness ==
    /\ last.op = "deleteReview" /\ last.code = 403
    /\ \E r \in reviews : r.userId = "alice" /\ r.carId = "c1"
    /\ ~(\E r \in reviews : r.userId = "bob")
    /\ numberOfReviews["c1"] = 1

\* C23: every stored booking ends strictly after it starts; and a creation
\* request whose endDate is not after its startDate, through POST /bookings or
\* through createBooking, is answered with an error and stores no booking.
C23_EndAfterStart ==
    /\ [](\A b \in bookings : b.startDate < b.endDate)
    /\ [][(last'.op \in {"postBooking", "createBooking"}) =>
             \A u \in Renters, c \in RentedCars \cup {NoCar}, s, e \in RouteTimes :
                (/\ e <= s
                 /\ \/ \E a \in Amounts : PostBooking(u, c, s, e, a, "ok")
                    \/ createBooking(u, c, s, e, << >>))
                   => (last'.code >= 400 /\ bookings' = bookings /\ nextId' = nextId)]_vars

\* With a booking stored, a createBooking for car c1 whose endDate is not after
\* its startDate has just failed the booking's validation.
C23_Witness ==
    /\ bookings # {}
    /\ last.op = "createBooking" /\ last.code = 500 /\ last.msg = "validation"
    /\ \A b \in bookings : b.endDate > b.startDate

\* C24: a confirm-payment for a stored booking whose payment intent has
\* succeeded is answered 200, and after it, as after the payment_intent.succeeded
\* webhook for a stored booking, the booking is stored with paymentStatus
\* completed and status confirmed.
C24_PaymentConfirmsBooking ==
    [][(last'.op \in {"confirmPayment", "webhook"}) =>
         \A id \in BookingIds :
            (/\ Exists(id)
             /\ \/ \E u \in Renters : ConfirmPayment(u, id, "succeeded")
                \/ PaymentWebhook("payment_intent.succeeded", id))
               => /\ last'.code = 200
                  /\ \E b \in bookings' : /\ b.id = id
                                            /\ b.paymentStatus = "completed"
                                            /\ b.status = "confirmed"]_vars

\* C25: a POST /bookings that passes the car checks and whose booking then
\* fails validation is answered with an error, stores no booking, and leaves
\* the car's stock and availability as they were before the request.
C25_FailedSaveIsCompensated ==
    [][(last'.op = "postBooking") =>
         \A u \in Renters, c \in RentedCars, s, e \in RouteTimes, a \in Amounts :
            (/\ availability[c] /\ ~OutOfStock(stock[c])
             /\ ~BookingValid(s, e, a)
             /\ PostBooking(u, c, s, e, a, "ok"))
               => /\ last'.code = 500
                  /\ stock' = stock /\ availability' = availability
                  /\ bookings' = bookings]_vars

\* The request for the last unit of car c1 has just failed at the booking's
\* validation, and the car has its unit and its availability back.
C25_Witness ==
    /\ last.op = "postBooking" /\ last.code = 500
    /\ stock0["c1"] = 1 /\ stock["c1"] = 1 /\ availability["c1"]
    /\ bookings = {}

\* C26: createBooking's insert is made on the result of the conflict check it
\* made earlier: a request that passed the check stores its pending booking
\* although a booking that conflicts with it has been stored since.
C26_InsertAfterStaleCheck ==
    [][\A r \in Requests :
          (/\ inflight[r].pc = "create"
           /\ conflictingBooking(inflight[r].car, inflight[r].s, inflight[r].e) # {}
           /\ inflight[r].s < inflight[r].e
           /\ CreateInsert(r))
             => /\ last'.code = 201
                /\ \E b \in bookings' \ bookings :
                      /\ b.vehicleId = inflight[r].car /\ b.status = "pending"
                      /\ b.startDate = inflight[r].s /\ b.endDate = inflight[r].e]_vars

\* Two pending bookings of car c1 over the same day are stored, each made by a
\* createBooking that found no conflict.
C26_Witness ==
    \E b1, b2 \in bookings :
       /\ b1.id # b2.id /\ b1.vehicleId = "c1" /\ b2.vehicleId = "c1"
       /\ b1.status = "pending" /\ b2.status = "pending"
       /\ b1.startDate = b2.startDate /\ b1.endDate = b2.endDate
       /\ last.op = "createBooking" /\ last.code = 201

\* C27: with POST /bookings requests on one car served at the same time, the
\* bookings created for the car are no more than the stock it started with, and
\* when no request is in progress its stock is the starting stock less the
\* number of bookings created.
C27_SuccessesWithinStock ==
    \A c \in RentedCars :
       LET created == Cardinality({b \in bookings : b.vehicleId = c}) IN
       /\ created <= stock0[c]
       /\ (\A r \in Requests : inflight[r].pc = "idle") => stock[c] = stock0[c] - created

\* C28: when no review write on a car is in progress, the hooks included, the
\* car's rating and numberOfReviews are the rounded mean and the number of the
\* reviews stored for it.
C28_NoDriftWhenQuiet ==
    (\A r \in Requests : hooks[r].pc = "idle") =>
        \A c \in RentedCars :
           /\ numberOfReviews[c] = Cardinality(ReviewsOf(reviews, c))
           /\ rating[c] = avgRating(ReviewsOf(reviews, c))

\* C29: with emergency deletes served at the same time, a car's stock is saved
\* with its unit restored only by a request whose deleteOne removed the booking,
\* so that no car's stock exceeds the stock it started with.
C29_EmergencyRestoresOnce ==
    /\ [](\A c \in Cars : stock[c] <= stock0[c])
    /\ [][\A r \in Requests : EmergencySaveCar(r) => inflight[r].removed]_vars

\* C30: an updateBooking by a caller who is no admin, on a stored booking,
\* sets the booking's status to cancelled and is answered 200 when the caller
\* owns the booking, asks for cancelled and the booking starts after the
\* current time; in every other case it is answered 400 or 403 and the stored
\* bookings are as they were.
C30_NonAdminOnlyCancelsOwnFuture ==
    [][(last'.op = "updateBooking") =>
         \A u \in Users, id \in {b.id : b \in bookings}, st \in StatusInputs, now \in Clock :
            updateBooking(u, id, st, now) =>
               IF /\ TheBooking(id).userId = u
                  /\ st = "cancelled"
                  /\ TheBooking(id).startDate > now
               THEN /\ last'.code = 200
                    /\ bookings' = SetStatus(TheBooking(id), "cancelled")
               ELSE /\ last'.code \in {400, 403}
                    /\ bookings' = bookings]_vars

\* alice has just cancelled her booking that starts on day 1, and bob's
\* booking is still pending.
C30_Witness ==
    /\ last.op = "updateBooking" /\ last.code = 200
    /\ \E b \in bookings : b.userId = "alice" /\ b.status = "cancelled" /\ b.startDate = MsPerDay
    /\ \E b \in bookings : b.userId = "bob" /\ b.status = "pending"

====
